---------------------------- MODULE Spec2Model ----------------------------
(***************************************************************************)
(* A model of a5hash.h (version 5.6): the unaligned loaders, the 64x64 to  *)
(* 128-bit multiply a5hash_umul128, the hash function a5hash and the       *)
(* generator a5rand.                                                       *)
(*                                                                         *)
(* Values.  A uint64_t is the tuple of its 8 bytes, least significant      *)
(* first: x[i] = (x >> 8(i-1)) & 255.  A uint32_t is the tuple of its 4    *)
(* bytes.  This is the VALUE of the integer, not its layout in memory: the *)
(* layout is decided by the platform (variable endian) and only matters in *)
(* the loaders, which memcpy() from the message into an integer.  All the  *)
(* arithmetic below works byte by byte with carries, so that every         *)
(* intermediate number stays small while the 64-bit and 128-bit results    *)
(* are exact.                                                              *)
(*                                                                         *)
(* A size_t (MsgLen, mo) and a pointer into the message (Msg, as an offset *)
(* from Msg0) are integers; a negative integer -k stands for the wrapped   *)
(* value 2^w - k of the unsigned type.                                     *)
(***************************************************************************)
EXTENDS Integers, Sequences, FiniteSets, TLC

VARIABLES
    impl,     \* which #if branch of a5hash_umul128 the build selected
    endian,   \* byte order of the platform the build runs on
    pc,       \* position of the single-threaded caller (umul128, loaders, a5hash)
    u, v, rl, rh, ovf,                  \* a5hash_umul128: arguments, *rl, *rh
    Msg0, UseSeed, Msg, MsgLen,         \* a5hash: arguments, moving pointer
    val01, val10, Seed1, Seed2, a, b,   \* a5hash: locals
    mo, iters, reads, digest,           \* a5hash: mo, loop count, bytes read, result
    ld,                                 \* value returned by a loader
    seeds, seeds0, ptr, tpc, s1, s2, ret, ncalls   \* a5rand: callers and state pairs

buildVars == <<impl, endian>>
mulVars == <<u, v, rl, rh, ovf>>
hashVars == <<Msg0, UseSeed, Msg, MsgLen, val01, val10, Seed1, Seed2, a, b,
              mo, iters, reads, digest>>
randVars == <<seeds, seeds0, ptr, tpc, s1, s2, ret, ncalls>>
vars == <<buildVars, pc, mulVars, hashVars, ld, randVars>>

---------------------------------------------------------------------------
(* Byte-wise integer arithmetic *)

Max(x, y) == IF x > y THEN x ELSE y

Zero32 == <<0, 0, 0, 0>>
Zero64 == <<0, 0, 0, 0, 0, 0, 0, 0>>

\* (uint64_t) x for a uint32_t x, and (uint32_t) x for a uint64_t x.
Ext64(x) == x \o Zero32
Trunc32(x) == SubSeq(x, 1, 4)
\* x >> 32 and x << 32 on a uint64_t.
Shr32(x) == SubSeq(x, 5, 8) \o Zero32
Shl32(x) == Zero32 \o SubSeq(x, 1, 4)

\* A size_t 0 <= n < 2^16 converted to uint64_t.
ToU64(n) == <<n % 256, n \div 256, 0, 0, 0, 0, 0, 0>>

RECURSIVE BitOp(_, _, _, _)
\* op applied to the low n bits of bytes x and y; op is "xor", "and" or "or".
BitOp(op, x, y, n) ==
    IF n = 0 THEN 0
    ELSE LET p == x % 2
             q == y % 2
             r == CASE op = "xor" -> (p + q) % 2
                    [] op = "and" -> p * q
                    [] op = "or" -> Max(p, q)
         IN r + 2 * BitOp(op, x \div 2, y \div 2, n - 1)

\* The three operations on 4-bit numbers, tabulated once, and on bytes.
NibbleOp ==
    [op \in {"xor", "and", "or"} |->
        [p \in 0..15 |-> [q \in 0..15 |-> BitOp(op, p, q, 4)]]]
ByteOp(op, x, y) ==
    NibbleOp[op][x % 16][y % 16] + 16 * NibbleOp[op][x \div 16][y \div 16]

Bitwise64(op, x, y) ==
    <<ByteOp(op, x[1], y[1]), ByteOp(op, x[2], y[2]),
      ByteOp(op, x[3], y[3]), ByteOp(op, x[4], y[4]),
      ByteOp(op, x[5], y[5]), ByteOp(op, x[6], y[6]),
      ByteOp(op, x[7], y[7]), ByteOp(op, x[8], y[8])>>

Xor64(x, y) == Bitwise64("xor", x, y)
And64(x, y) == Bitwise64("and", x, y)
Or64(x, y) == Bitwise64("or", x, y)

RECURSIVE AddBytes(_, _, _, _, _)
\* The bytes of x + y from byte i on, appended to acc, and the last carry.
AddBytes(x, y, i, carry, acc) ==
    IF i > Len(x) THEN Append(acc, carry)
    ELSE AddBytes(x, y, i + 1, (x[i] + y[i] + carry) \div 256,
                  Append(acc, (x[i] + y[i] + carry) % 256))

\* x + y in uint64_t (mod 2^64), and the carry out of bit 63.
Add64(x, y) == SubSeq(AddBytes(x, y, 1, 0, <<>>), 1, 8)
Carry64(x, y) == AddBytes(x, y, 1, 0, <<>>)[9] = 1

\* Long multiplication of x, taken as four 16-bit limbs xl[1..4], by y, taken
\* as eight bytes: limb i (0-based) times byte j has weight 2^(16i + 8j) and
\* goes to byte column 2i + j.
Limbs16(x) ==
    <<x[1] + 256 * x[2], x[3] + 256 * x[4], x[5] + 256 * x[6],
      x[7] + 256 * x[8]>>

\* The sum of the products of column k.
Column(xl, y, k) ==
    CASE k = 0 -> xl[1] * y[1]
      [] k = 1 -> xl[1] * y[2]
      [] k = 2 -> xl[1] * y[3] + xl[2] * y[1]
      [] k = 3 -> xl[1] * y[4] + xl[2] * y[2]
      [] k = 4 -> xl[1] * y[5] + xl[2] * y[3] + xl[3] * y[1]
      [] k = 5 -> xl[1] * y[6] + xl[2] * y[4] + xl[3] * y[2]
      [] k = 6 -> xl[1] * y[7] + xl[2] * y[5] + xl[3] * y[3] + xl[4] * y[1]
      [] k = 7 -> xl[1] * y[8] + xl[2] * y[6] + xl[3] * y[4] + xl[4] * y[2]
      [] k = 8 -> xl[2] * y[7] + xl[3] * y[5] + xl[4] * y[3]
      [] k = 9 -> xl[2] * y[8] + xl[3] * y[6] + xl[4] * y[4]
      [] k = 10 -> xl[3] * y[7] + xl[4] * y[5]
      [] k = 11 -> xl[3] * y[8] + xl[4] * y[6]
      [] k = 12 -> xl[4] * y[7]
      [] k = 13 -> xl[4] * y[8]
      [] k = 14 -> 0
      [] k = 15 -> 0

RECURSIVE MulCols(_, _, _, _, _, _)
RECURSIVE MulCarry(_, _, _, _, _, _)
\* The low ncols bytes of the product, column by column: s is the sum of
\* column k and of the carry of the columns below it.
MulCols(xl, y, k, carry, acc, ncols) ==
    IF k = ncols THEN acc
    ELSE MulCarry(xl, y, k, carry + Column(xl, y, k), acc, ncols)
MulCarry(xl, y, k, s, acc, ncols) ==
    MulCols(xl, y, k + 1, s \div 256, Append(acc, s % 256), ncols)

\* (__uint128_t) x * y: 16 bytes.  x * y in uint64_t: the low 8 bytes.
Mul128(x, y) == MulCols(Limbs16(x), y, 0, 0, <<>>, 16)
Mul64(x, y) == MulCols(Limbs16(x), y, 0, 0, <<>>, 8)
\* Whether x * y does not fit uint64_t.
MulOvf64(x, y) == SubSeq(Mul128(x, y), 9, 16) # Zero64

---------------------------------------------------------------------------
(* a5hash_umul128 *)

Impls == {"int128", "portable"}

\* The branches that use a 128-bit type or a multiply-high intrinsic
\* (__umulh, _umul128, __uint128_t, __mulhdu).
Split128(r) == [rl |-> SubSeq(r, 1, 8), rh |-> SubSeq(r, 9, 16), ovf |-> FALSE]
Umul128Native(x, y) == Split128(Mul128(x, y))

\* Mutant: the carry (uint32_t)( t >> 32 ) is left out of *rh.
Mut_Umul128Portable_NoCarry(x, y) ==
    LET u0 == Trunc32(x)
        v0 == Trunc32(y)
        w0 == Mul64(Ext64(u0), Ext64(v0))
        u1 == Trunc32(Shr32(x))
        v1 == Trunc32(Shr32(y))
        t == Add64(Mul64(Ext64(u1), Ext64(v0)), Ext64(Trunc32(Shr32(w0))))
        w1 == Add64(Mul64(Ext64(u0), Ext64(v1)), Ext64(Trunc32(t)))
    IN [rl |-> Mul64(x, y),
        rh |-> Add64(Mul64(Ext64(u1), Ext64(v1)), Ext64(Trunc32(Shr32(w1)))),
        ovf |-> FALSE]

\* The branch for 32-bit systems.  ovf records whether any of the 64-bit
\* products and sums that form t, w1 and *rh exceeded 64 bits.
Umul128Portable(x, y) ==
    LET u0 == Trunc32(x)
        v0 == Trunc32(y)
        w0 == Mul64(Ext64(u0), Ext64(v0))
        u1 == Trunc32(Shr32(x))
        v1 == Trunc32(Shr32(y))
        tp == Mul64(Ext64(u1), Ext64(v0))
        tc == Ext64(Trunc32(Shr32(w0)))
        t == Add64(tp, tc)
        w1p == Mul64(Ext64(u0), Ext64(v1))
        w1c == Ext64(Trunc32(t))
        w1 == Add64(w1p, w1c)
        hp == Mul64(Ext64(u1), Ext64(v1))
        hc1 == Ext64(Trunc32(Shr32(w1)))
        h1 == Add64(hp, hc1)
        hc2 == Ext64(Trunc32(Shr32(t)))
    IN [rl |-> Mul64(x, y),
        rh |-> Add64(h1, hc2),
        ovf |-> \/ MulOvf64(Ext64(u0), Ext64(v0))
                \/ MulOvf64(Ext64(u1), Ext64(v0))
                \/ Carry64(tp, tc)
                \/ MulOvf64(Ext64(u0), Ext64(v1))
                \/ Carry64(w1p, w1c)
                \/ MulOvf64(Ext64(u1), Ext64(v1))
                \/ Carry64(hp, hc1)
                \/ Carry64(h1, hc2)]

a5hash_umul128(x, y) ==
    IF impl = "portable" THEN Umul128Portable(x, y) ELSE Umul128Native(x, y)

---------------------------------------------------------------------------
(* Idle values of the parts a specification does not exercise *)

Endians == {"little", "big"}

MulIdle ==
    /\ u = Zero64 /\ v = Zero64 /\ rl = Zero64 /\ rh = Zero64 /\ ovf = FALSE

HashIdle ==
    /\ Msg0 = <<>> /\ UseSeed = Zero64 /\ Msg = 0 /\ MsgLen = 0
    /\ val01 = Zero64 /\ val10 = Zero64 /\ Seed1 = Zero64 /\ Seed2 = Zero64
    /\ a = Zero64 /\ b = Zero64 /\ mo = 0 /\ iters = 0 /\ reads = {}
    /\ digest = Zero64

RandIdle ==
    /\ seeds = <<>> /\ seeds0 = <<>> /\ ptr = <<>> /\ tpc = <<>>
    /\ s1 = <<>> /\ s2 = <<>> /\ ret = <<>> /\ ncalls = <<>>

---------------------------------------------------------------------------
(* Specification MulSpec: a caller of a5hash_umul128 *)

\* 32-bit halves the arguments are built from: 0, 1, 2^16, 2^31, 2^31 - 1
\* and 2^(8k) - 1 for k = 1..4.
Half32 ==
    {<<0, 0, 0, 0>>, <<1, 0, 0, 0>>, <<0, 0, 1, 0>>, <<0, 0, 0, 128>>,
     <<255, 255, 255, 127>>, <<255, 0, 0, 0>>, <<255, 255, 0, 0>>,
     <<255, 255, 255, 0>>, <<255, 255, 255, 255>>}
Arg64 == {lo \o hi : lo \in Half32, hi \in Half32}

MulInit ==
    /\ impl \in Impls /\ endian = "little"
    /\ pc = "call"
    /\ u \in Arg64 /\ v \in Arg64
    /\ rl = Zero64 /\ rh = Zero64 /\ ovf = FALSE
    /\ HashIdle /\ RandIdle /\ ld = Zero64

CallUmul128 ==
    /\ pc = "call"
    /\ \E r \in {a5hash_umul128(u, v)} :
          rl' = r.rl /\ rh' = r.rh /\ ovf' = r.ovf
    /\ pc' = "ret"
    /\ UNCHANGED <<buildVars, u, v, hashVars, ld, randVars>>

MulNext == CallUmul128
MulSpec == MulInit /\ [][MulNext]_vars

\* An independent statement of exactness.  Nine primes below 2^15 whose
\* product exceeds 2^128: two numbers below 2^128 that agree modulo each of
\* them are equal.
Primes == <<32749, 32719, 32717, 32713, 32707, 32693, 32687, 32653, 32647>>

RECURSIVE Residue(_, _, _)
\* The number with bytes x[1..i] (least significant first), modulo p.
Residue(x, i, p) ==
    IF i = 0 THEN 0
    ELSE (x[1] + 256 * Residue(Tail(x), i - 1, p)) % p

ExactProduct(x, y, lo, hi) ==
    \A k \in 1..Len(Primes) :
        LET p == Primes[k]
        IN Residue(lo \o hi, 16, p) = (Residue(x, 8, p) * Residue(y, 8, p)) % p

\* C1: when a5hash_umul128(u, v) returns, rh * 2^64 + rl is the exact product
\* u * v, on the portable 32-bit branch as on the 128-bit branch; the two
\* branches return the same (rl, rh), and no 64-bit product or sum of the
\* portable branch exceeds 64 bits.
C1_MulExact ==
    pc = "ret" =>
        /\ ExactProduct(u, v, rl, rh)
        /\ rl = Umul128Native(u, v).rl /\ rh = Umul128Native(u, v).rh
        /\ rl = Umul128Portable(u, v).rl /\ rh = Umul128Portable(u, v).rh
        /\ ~ovf

Max64 == <<255, 255, 255, 255, 255, 255, 255, 255>>

\* (2^64 - 1)^2 = 2^128 - 2^65 + 1 from the portable branch: every carry of
\* the partial products is at its largest.
C1_Witness ==
    /\ pc = "ret" /\ impl = "portable" /\ u = Max64 /\ v = Max64
    /\ rl = <<1, 0, 0, 0, 0, 0, 0, 0>>
    /\ rh = <<254, 255, 255, 255, 255, 255, 255, 255>>

---------------------------------------------------------------------------
(* The message buffer and the loaders *)

\* Bytes that a read outside the buffer may return (undefined behaviour).
JunkBytes == {0, 255}

InBuf(o) == o >= 0 /\ o < Len(Msg0)
\* The byte at offset o from Msg0.
MemByte(o, junk) == IF InBuf(o) THEN Msg0[o + 1] ELSE junk
\* The offsets of n bytes starting at offset o.
Span(o, n) == o..(o + n - 1)

Reverse4(x) == <<x[4], x[3], x[2], x[1]>>
Reverse8(x) == <<x[8], x[7], x[6], x[5], x[4], x[3], x[2], x[1]>>

\* Mutant: a loader that swaps the bytes on every platform.
Mut_Memcpy32_Swapped(bytes) == Reverse4(bytes)

\* memcpy( &v, p, 4 ) into a uint32_t v: the bytes land in the object in
\* memory order, and the value of v is what the platform reads from them.
Memcpy32(bytes) == IF endian = "little" THEN bytes ELSE Reverse4(bytes)
Memcpy64(bytes) == IF endian = "little" THEN bytes ELSE Reverse8(bytes)

\* a5hash_lu32( Msg0 + o ), returned as uint64_t, and a5hash_lu64( Msg0 + o ).
a5hash_lu32(o, junk) ==
    Ext64(Memcpy32(<<MemByte(o, junk), MemByte(o + 1, junk),
                     MemByte(o + 2, junk), MemByte(o + 3, junk)>>))
a5hash_lu64(o, junk) ==
    Memcpy64(<<MemByte(o, junk), MemByte(o + 1, junk),
               MemByte(o + 2, junk), MemByte(o + 3, junk),
               MemByte(o + 4, junk), MemByte(o + 5, junk),
               MemByte(o + 6, junk), MemByte(o + 7, junk)>>)

---------------------------------------------------------------------------
(* a5hash *)

A5HASH_VAL10 == <<170, 170, 170, 170, 170, 170, 170, 170>>
A5HASH_VAL01 == <<85, 85, 85, 85, 85, 85, 85, 85>>
\* 0x243F6A8885A308D3 and 0x452821E638D01377
PI1 == <<211, 8, 163, 133, 136, 106, 63, 36>>
PI2 == <<119, 19, 208, 56, 230, 33, 40, 69>>

\* x > y on size_t, where a negative integer stands for a wrapped value.
SizeGT(x, y) == IF (x < 0) = (y < 0) THEN x > y ELSE x < 0

\* Mutants: MsgLen > 2 for MsgLen > 3; MsgLen >> 4 and MsgLen >> 2 for
\* MsgLen >> 3;
\* while( MsgLen >= 16 ) for while( MsgLen > 16 ); the tail read at Msg
\* for Msg + MsgLen - 16.
Mut_IsWide_Gt2(len) == SizeGT(len, 2)
Mut_MoOf_Shr4(len) == len \div 16
Mut_LoopAgain_Ge16(len) == SizeGT(len, 15)
Mut_TailA_AtMsg(msg, len) == msg
Mut_MoOf_Shr2(len) == len \div 4

\* MsgLen < 17, MsgLen > 3, mo = MsgLen >> 3, mo * 4, Msg4 = Msg + MsgLen - 4
IsShort(len) == SizeGT(17, len)
IsWide(len) == SizeGT(len, 3)
MoOf(len) == len \div 8
MoStep(m) == m * 4
Msg4Of(msg, len) == msg + len - 4
\* while( MsgLen > 16 )
LoopAgain(len) == SizeGT(len, 16)
\* Msg + MsgLen - 16 and Msg + MsgLen - 8
TailA(msg, len) == msg + len - 16
TailB(msg, len) == msg + len - 8

\* (uint64_t) byte << 8k
ByteLane(x, k) ==
    <<IF k = 0 THEN x ELSE 0, IF k = 1 THEN x ELSE 0, IF k = 2 THEN x ELSE 0,
      IF k = 3 THEN x ELSE 0, IF k = 4 THEN x ELSE 0, IF k = 5 THEN x ELSE 0,
      IF k = 6 THEN x ELSE 0, IF k = 7 THEN x ELSE 0>>

Site(site, offsets) == {<<site, o>> : o \in offsets}

\* Lines 294-308: the locals, the seeds mixed with UseSeed.
HashStart ==
    /\ pc = "start"
    /\ Msg' = 0
    /\ val01' = A5HASH_VAL01
    /\ \E r \in {a5hash_umul128(
                    Xor64(Xor64(PI2, ToU64(MsgLen)), And64(UseSeed, A5HASH_VAL10)),
                    Xor64(Xor64(PI1, ToU64(MsgLen)), And64(UseSeed, A5HASH_VAL01)))} :
          /\ Seed1' = r.rl
          /\ Seed2' = r.rh
          /\ val10' = Xor64(A5HASH_VAL10, r.rh)
    /\ pc' = "branch"
    /\ UNCHANGED <<buildVars, mulVars, Msg0, UseSeed, MsgLen, a, b, mo, iters,
                   reads, digest, ld, randVars>>

\* Lines 312-321: 4 to 16 bytes, four 4-byte loads.
SmallWide ==
    /\ pc = "branch" /\ IsShort(MsgLen) /\ IsWide(MsgLen)
    /\ \E junk \in JunkBytes :
        LET Msg4 == Msg4Of(Msg, MsgLen)
            m == MoOf(MsgLen)
        IN /\ mo' = m
           /\ a' = Or64(Shl32(a5hash_lu32(Msg, junk)), a5hash_lu32(Msg4, junk))
           /\ b' = Or64(Shl32(a5hash_lu32(Msg + MoStep(m), junk)),
                        a5hash_lu32(Msg4 - MoStep(m), junk))
           /\ reads' = reads \cup Site("small",
                  Span(Msg, 4) \cup Span(Msg4, 4) \cup Span(Msg + MoStep(m), 4)
                      \cup Span(Msg4 - MoStep(m), 4))
    /\ pc' = "final"
    /\ UNCHANGED <<buildVars, mulVars, Msg0, UseSeed, Msg, MsgLen, val01, val10,
                   Seed1, Seed2, iters, digest, ld, randVars>>

\* Lines 324-340: 0 to 3 bytes, read one by one.
SmallBytes ==
    /\ pc = "branch" /\ IsShort(MsgLen) /\ ~IsWide(MsgLen)
    /\ \E junk \in JunkBytes :
        LET a0 == IF MsgLen # 0 THEN ByteLane(MemByte(Msg, junk), 0) ELSE Zero64
            a1 == IF MsgLen # 0 /\ MsgLen # 1
                  THEN Or64(a0, ByteLane(MemByte(Msg + 1, junk), 1)) ELSE a0
            a2 == IF MsgLen # 0 /\ MsgLen # 1 /\ MsgLen # 2
                  THEN Or64(a1, ByteLane(MemByte(Msg + 2, junk), 2)) ELSE a1
        IN /\ a' = a2
           /\ b' = Zero64
           /\ reads' = reads \cup Site("small",
                  {Msg + k : k \in {j \in 0..2 : \A i \in 0..j : MsgLen # i}})
    /\ pc' = "final"
    /\ UNCHANGED <<buildVars, mulVars, Msg0, UseSeed, Msg, MsgLen, val01, val10,
                   Seed1, Seed2, mo, iters, digest, ld, randVars>>

\* Line 345: more than 16 bytes.
LongEnter ==
    /\ pc = "branch" /\ ~IsShort(MsgLen)
    /\ val01' = Xor64(val01, Seed1)
    /\ pc' = "loop"
    /\ UNCHANGED <<buildVars, mulVars, Msg0, UseSeed, Msg, MsgLen, val10,
                   Seed1, Seed2, a, b, mo, iters, reads, digest, ld, randVars>>

\* Lines 347-358: one pass of the do-while body, then its condition.
LoopBody ==
    /\ pc = "loop"
    /\ \E junk \in JunkBytes :
        \E r \in {a5hash_umul128(Xor64(Seed1, a5hash_lu64(Msg, junk)),
                                 Xor64(Seed2, a5hash_lu64(Msg + 8, junk)))} :
           /\ Seed1' = Add64(r.rl, val01)
           /\ Seed2' = Add64(r.rh, val10)
    /\ reads' = reads \cup Site("loop", Span(Msg, 8) \cup Span(Msg + 8, 8))
    /\ MsgLen' = MsgLen - 16
    /\ Msg' = Msg + 16
    /\ iters' = iters + 1
    /\ pc' = IF LoopAgain(MsgLen') THEN "loop" ELSE "tail"
    /\ UNCHANGED <<buildVars, mulVars, Msg0, UseSeed, val01, val10, a, b, mo,
                   digest, ld, randVars>>

\* Lines 360-361: the last 16 bytes of the message.
LoopTail ==
    /\ pc = "tail"
    /\ \E junk \in JunkBytes :
        /\ a' = a5hash_lu64(TailA(Msg, MsgLen), junk)
        /\ b' = a5hash_lu64(TailB(Msg, MsgLen), junk)
    /\ reads' = reads \cup Site("tail",
           Span(TailA(Msg, MsgLen), 8) \cup Span(TailB(Msg, MsgLen), 8))
    /\ pc' = "final"
    /\ UNCHANGED <<buildVars, mulVars, Msg0, UseSeed, Msg, MsgLen, val01, val10,
                   Seed1, Seed2, mo, iters, digest, ld, randVars>>

\* Lines 364-368: the two final multiplications and the return value.
Finalize ==
    /\ pc = "final"
    /\ \E r1 \in {a5hash_umul128(Xor64(Seed1, a), Xor64(Seed2, b))} :
        \E r2 \in {a5hash_umul128(Xor64(r1.rl, val01), r1.rh)} :
          /\ Seed1' = r2.rl
          /\ Seed2' = r2.rh
          /\ digest' = Xor64(r2.rl, r2.rh)
    /\ pc' = "done"
    /\ UNCHANGED <<buildVars, mulVars, Msg0, UseSeed, Msg, MsgLen, val01, val10,
                   a, b, mo, iters, reads, ld, randVars>>

---------------------------------------------------------------------------
(* Specification HashSpec: one call of a5hash *)

MaxLen == 50

\* Messages: byte i is base + i * step (mod 256).
Patterns == {<<1, 1>>, <<250, 37>>}
Message(n, pat) == [i \in 1..n |-> (pat[1] + (i - 1) * pat[2]) % 256]
Messages == {Message(n, pat) : n \in 0..MaxLen, pat \in Patterns}
\* 0 and 0x0123456789ABCDEF
UseSeeds == {Zero64, <<239, 205, 171, 137, 103, 69, 35, 1>>}

\* The state at the call.  The locals have no value yet (a and b are declared
\* without one); the code writes each of them before it reads it, and zero
\* stands for "not yet written".
HashInit ==
    /\ impl \in Impls /\ endian \in Endians
    /\ pc = "start"
    /\ Msg0 \in Messages /\ UseSeed \in UseSeeds
    /\ MsgLen = Len(Msg0)
    /\ Msg = 0
    /\ val01 = Zero64 /\ val10 = Zero64 /\ Seed1 = Zero64 /\ Seed2 = Zero64
    /\ a = Zero64 /\ b = Zero64 /\ mo = 0 /\ iters = 0 /\ reads = {}
    /\ digest = Zero64
    /\ MulIdle /\ RandIdle /\ ld = Zero64

HashNext ==
    \/ HashStart \/ SmallWide \/ SmallBytes \/ LongEnter \/ LoopBody
    \/ LoopTail \/ Finalize
HashSpec == HashInit /\ [][HashNext]_vars

\* Digests computed by the compiled header (x86-64).
RefDigests ==
    pc = "done" /\ endian = "little" =>
        /\ Msg0 = Message(0, <<1, 1>>) /\ UseSeed = Zero64
             => digest = <<145, 253, 226, 82, 17, 79, 45, 15>>
        /\ Msg0 = Message(3, <<1, 1>>) /\ UseSeed = Zero64
             => digest = <<28, 12, 28, 81, 253, 41, 33, 200>>
        /\ Msg0 = Message(16, <<1, 1>>) /\ UseSeed = Zero64
             => digest = <<115, 25, 55, 245, 211, 140, 147, 215>>
        /\ Msg0 = Message(33, <<1, 1>>) /\ UseSeed = Zero64
             => digest = <<115, 129, 11, 9, 78, 225, 145, 235>>
        /\ Msg0 = Message(50, <<250, 37>>) /\ UseSeed # Zero64
             => digest = <<25, 101, 129, 103, 210, 126, 66, 46>>

\* The offsets read so far, all of them and by place in the code.
Offsets == {r[2] : r \in reads}
OffsetsAt(site) == {r[2] : r \in {q \in reads : q[1] = site}}
Returned == pc \in {"final", "done"}
BytesOf(x) == {x[i] : i \in 1..Len(x)}

\* C2: every byte a5hash reads lies inside the message: nothing is read of
\* an empty message, bytes 0..n-1 of a message of 1 to 3 bytes, the four
\* 4-byte windows at 0, n-4, 4*(n>>3) and n-4-4*(n>>3) of a message of 4 to
\* 16 bytes, and the loop blocks and the two tail windows of a longer one.
C2_ReadsInBounds ==
    LET n == Len(Msg0)
    IN /\ \A o \in Offsets : 0 <= o /\ o < n
       /\ n = 0 => reads = {}
       /\ Returned /\ n \in 1..3 => Offsets = 0..(n - 1)
       /\ Returned /\ n \in 4..16 =>
              Offsets = Span(0, 4) \cup Span(n - 4, 4)
                          \cup Span(4 * (n \div 8), 4)
                          \cup Span(n - 4 - 4 * (n \div 8), 4)
       /\ Returned /\ n > 16 =>
              /\ OffsetsAt("loop") = 0..(16 * iters - 1)
              /\ OffsetsAt("tail") = (n - 16)..(n - 1)

\* A message of 17 bytes: the loop read bytes 0..15 and the tail bytes 1..16.
C2_Witness ==
    /\ pc = "done" /\ Len(Msg0) = 17
    /\ <<"loop", 15>> \in reads /\ <<"tail", 1>> \in reads
    /\ <<"tail", 16>> \in reads

\* C7: for a message of 4 to 16 bytes the four 4-byte windows cover every
\* byte of the message; a holds the windows at 0 (high half) and n-4 (low
\* half), b those at 4*mo and n-4-4*mo, so every message byte is in a or b.
C7_SmallCoverage ==
    LET n == Len(Msg0)
    IN Returned /\ n \in 4..16 =>
        /\ Offsets = 0..(n - 1)
        /\ a = Memcpy32(SubSeq(Msg0, n - 3, n)) \o Memcpy32(SubSeq(Msg0, 1, 4))
        /\ b = Memcpy32(SubSeq(Msg0, n - 3 - 4 * mo, n - 4 * mo))
                 \o Memcpy32(SubSeq(Msg0, 4 * mo + 1, 4 * mo + 4))
        /\ \A i \in 1..n : Msg0[i] \in BytesOf(a) \cup BytesOf(b)

\* 11 bytes: the windows 0..3, 4..7, 3..6 and 7..10 overlap and cover 0..10.
C7_Witness ==
    /\ pc = "final" /\ Len(Msg0) = 11 /\ mo = 1
    /\ Offsets = 0..10

\* C8 as stated: mo is 0 or 1 on the small path, 0 for 4..7 and 1 for 8..16.
C8_Original ==
    LET n == Len(Msg0)
    IN Returned /\ n \in 4..16 =>
        /\ mo \in {0, 1}
        /\ n \in 4..7 => mo = 0
        /\ n \in 8..16 => mo = 1

\* C8, amended: on the small path mo = MsgLen >> 3 is 0 for lengths 4..7,
\* 1 for lengths 8..15 and 2 for length 16.
C8_MoValues ==
    LET n == Len(Msg0)
    IN Returned /\ n \in 4..16 =>
        /\ mo \in {0, 1, 2}
        /\ n \in 4..7 => mo = 0
        /\ n \in 8..15 => mo = 1
        /\ n = 16 => mo = 2

\* 16 bytes: mo = 2, the windows are at 0, 12, 8 and 4.
C8_Witness ==
    /\ pc = "final" /\ Len(Msg0) = 16 /\ mo = 2
    /\ Offsets = 0..15

\* C9: for n > 16 the loop body is entered only with more than 16 bytes
\* remaining (so MsgLen -= 16 does not wrap, and a while loop testing first
\* would do the same), it runs ceil(n/16) - 1 >= 1 times, and it leaves 1 to
\* 16 bytes: 16 remaining bytes do not run another pass.
C9_LoopIterations ==
    LET n == Len(Msg0)
        k == (n + 15) \div 16 - 1
    IN /\ pc = "loop" =>
            /\ n > 16 /\ MsgLen > 16 /\ MsgLen = n - 16 * iters
            /\ iters < k
       /\ pc = "tail" \/ (Returned /\ n > 16) =>
            /\ iters = k /\ iters >= 1
            /\ MsgLen \in 1..16 /\ MsgLen = n - 16 * iters
            /\ Msg = 16 * iters

\* 48 bytes: two passes, and the 16 bytes then remaining go to the tail.
C9_Witness ==
    /\ pc = "tail" /\ Len(Msg0) = 48 /\ iters = 2 /\ MsgLen = 16

\* C10: for n > 16, a and b are the 8 bytes at offsets n-16 and n-8 of the
\* original message; the loop blocks and the tail [n-16, n) cover [0, n);
\* the tail overlaps the bytes the loop read exactly when n is no multiple
\* of 16.
C10_TailWindows ==
    LET n == Len(Msg0)
    IN Returned /\ n > 16 =>
        /\ a = Memcpy64(SubSeq(Msg0, n - 15, n - 8))
        /\ b = Memcpy64(SubSeq(Msg0, n - 7, n))
        /\ OffsetsAt("tail") = (n - 16)..(n - 1)
        /\ OffsetsAt("loop") \cup OffsetsAt("tail") = 0..(n - 1)
        /\ (OffsetsAt("loop") \cap OffsetsAt("tail") # {}) <=> (n % 16 # 0)

\* 33 bytes: the loop read 0..31, the tail reads 17..32.
C10_Witness ==
    /\ pc = "done" /\ Len(Msg0) = 33
    /\ OffsetsAt("loop") \cap OffsetsAt("tail") = 17..31

\* 32 bytes: the loop read 0..15 only, the tail reads 16..31, no overlap.
C10_NoOverlapReached ==
    /\ pc = "done" /\ Len(Msg0) = 32
    /\ OffsetsAt("loop") \cap OffsetsAt("tail") = {}

---------------------------------------------------------------------------
(* Specification LoadSpec: a caller of the loaders at any offset of a buffer *)

MaxLoadLen == 12
LoadBufs == {m \in Messages : Len(m) >= 8 /\ Len(m) <= MaxLoadLen}

LoadInit ==
    /\ impl = "int128" /\ endian \in Endians
    /\ pc = "load"
    /\ Msg0 \in LoadBufs /\ UseSeed = Zero64
    /\ MsgLen = Len(Msg0)
    /\ Msg \in 0..(Len(Msg0) - 8)
    /\ val01 = Zero64 /\ val10 = Zero64 /\ Seed1 = Zero64 /\ Seed2 = Zero64
    /\ a = Zero64 /\ b = Zero64 /\ mo = 0 /\ iters = 0 /\ reads = {}
    /\ digest = Zero64
    /\ MulIdle /\ RandIdle /\ ld = Zero64

CallLu32 ==
    /\ pc = "load"
    /\ \E junk \in JunkBytes : ld' = a5hash_lu32(Msg, junk)
    /\ reads' = reads \cup Site("lu32", Span(Msg, 4))
    /\ pc' = "lu32"
    /\ UNCHANGED <<buildVars, mulVars, Msg0, UseSeed, Msg, MsgLen, val01, val10,
                   Seed1, Seed2, a, b, mo, iters, digest, randVars>>

CallLu64 ==
    /\ pc = "load"
    /\ \E junk \in JunkBytes : ld' = a5hash_lu64(Msg, junk)
    /\ reads' = reads \cup Site("lu64", Span(Msg, 8))
    /\ pc' = "lu64"
    /\ UNCHANGED <<buildVars, mulVars, Msg0, UseSeed, Msg, MsgLen, val01, val10,
                   Seed1, Seed2, a, b, mo, iters, digest, randVars>>

LoadNext == CallLu32 \/ CallLu64
LoadSpec == LoadInit /\ [][LoadNext]_vars

\* The 4 or 8 bytes at the load address, in memory order.
At32 == SubSeq(Msg0, Msg + 1, Msg + 4)
At64 == SubSeq(Msg0, Msg + 1, Msg + 8)

\* C3 as stated: on every platform the loaders return the integer whose
\* little-endian representation is the bytes at the address (the byte at
\* offset i is bits 8i..8i+7 of the result).
C3_Original ==
    /\ pc = "lu32" => ld = Ext64(At32)
    /\ pc = "lu64" => ld = At64

\* C3, amended: the loaders return the integer whose representation in the
\* platform's byte order is the bytes at the address, at any alignment: on a
\* little-endian platform the byte at offset i is bits 8i..8i+7 of the result,
\* on a big-endian platform it is bits 8(w-1-i)..8(w-1-i)+7 (w = 4 or 8).
C3_NativeOrder ==
    /\ pc = "lu32" /\ endian = "little" => ld = Ext64(At32)
    /\ pc = "lu64" /\ endian = "little" => ld = At64
    /\ pc = "lu32" /\ endian = "big" =>
           ld = <<At32[4], At32[3], At32[2], At32[1], 0, 0, 0, 0>>
    /\ pc = "lu64" /\ endian = "big" =>
           ld = <<At64[8], At64[7], At64[6], At64[5],
                  At64[4], At64[3], At64[2], At64[1]>>

\* The bytes 4, 5, 6, 7 at the odd offset 3, loaded on a big-endian platform,
\* give 0x04050607.
C3_Witness ==
    /\ pc = "lu32" /\ endian = "big" /\ Msg = 3
    /\ Msg0 = Message(11, <<1, 1>>)
    /\ ld = <<7, 6, 5, 4, 0, 0, 0, 0>>

---------------------------------------------------------------------------
(* a5rand *)

\* Mutants: the additive constants left out; the locals s1, s2 made static,
\* one copy for all callers.
RandResult(r) == [Seed1 |-> r.rl, Seed2 |-> r.rh, ret |-> Xor64(r.rl, r.rh)]
Mut_a5rand_NoConstants(pair) == RandResult(a5hash_umul128(pair[1], pair[2]))
Mut_Frame_Static(t) == 1
\* Mutant: the constants exchanged.
Mut_RandMul_Swapped(x, y) ==
    a5hash_umul128(Add64(x, A5HASH_VAL10), Add64(y, A5HASH_VAL01))

\* Line 398: the multiplication of the two offset state words.
RandMul(x, y) ==
    a5hash_umul128(Add64(x, A5HASH_VAL01), Add64(y, A5HASH_VAL10))

\* One whole call on the state pair <<*Seed1, *Seed2>>: the new pair (the
\* two halves of the product r) and the returned value.
a5rand(pair) == RandResult(RandMul(pair[1], pair[2]))

\* The automatic locals s1, s2 of the call made by caller t.
Frame(t) == t

\* 0, 2^64 - 1, 0xAAAAAAAAAAAAAAAB (= -A5HASH_VAL01) and 0x0123456789ABCDEF
RandWords ==
    {Zero64, <<255, 255, 255, 255, 255, 255, 255, 255>>,
     <<171, 170, 170, 170, 170, 170, 170, 170>>,
     <<239, 205, 171, 137, 103, 69, 35, 1>>}

---------------------------------------------------------------------------
(* Specification RandSpec: one caller, calls in sequence *)

MaxCalls == 8

RandInit ==
    /\ impl \in Impls /\ endian = "little"
    /\ pc = "rand"
    /\ seeds \in {<<<<x, y>>>> : x \in RandWords, y \in RandWords}
    /\ seeds0 = seeds
    /\ ptr = <<1>> /\ tpc = <<"read1">>
    /\ s1 = <<Zero64>> /\ s2 = <<Zero64>>
    /\ ret = <<Zero64>> /\ ncalls = <<0>>
    /\ MulIdle /\ HashIdle /\ ld = Zero64

\* Lines 395-403, one call from entry to return.
CallA5Rand ==
    /\ pc = "rand" /\ ncalls[1] < MaxCalls
    /\ \E r \in {a5rand(seeds[ptr[1]])} :
          /\ s1' = [s1 EXCEPT ![Frame(1)] = r.Seed1]
          /\ s2' = [s2 EXCEPT ![Frame(1)] = r.Seed2]
          /\ seeds' = [seeds EXCEPT ![ptr[1]] = <<r.Seed1, r.Seed2>>]
          /\ ret' = [ret EXCEPT ![1] = r.ret]
    /\ ncalls' = [ncalls EXCEPT ![1] = @ + 1]
    /\ UNCHANGED <<buildVars, pc, mulVars, hashVars, ld, seeds0, ptr, tpc>>

RandNext == CallA5Rand
RandSpec == RandInit /\ [][RandNext]_vars

RECURSIVE Greater(_, _, _)
\* x > y for numbers of i bytes.
Greater(x, y, i) ==
    IF i = 0 THEN FALSE
    ELSE IF x[i] # y[i] THEN x[i] > y[i] ELSE Greater(x, y, i - 1)

\* (x + c) mod 2^64, modulo p, for c = 0x5555555555555555 (which wraps when
\* x > 0xAAAAAAAAAAAAAAAA) and for c = 0xAAAAAAAAAAAAAAAA (which wraps when
\* x > 0x5555555555555555).
ResiduePlus01(x, p) ==
    (Residue(x, 8, p) + Residue(A5HASH_VAL01, 8, p) + p
       - (IF Greater(x, A5HASH_VAL10, 8)
          THEN Residue(<<0, 0, 0, 0, 0, 0, 0, 0, 1>>, 9, p) ELSE 0)) % p
ResiduePlus10(x, p) ==
    (Residue(x, 8, p) + Residue(A5HASH_VAL10, 8, p) + p
       - (IF Greater(x, A5HASH_VAL01, 8)
          THEN Residue(<<0, 0, 0, 0, 0, 0, 0, 0, 1>>, 9, p) ELSE 0)) % p

\* new[2] * 2^64 + new[1] is the exact product of the two offset words of old.
ExactStep(old, new) ==
    \A k \in 1..Len(Primes) :
        LET p == Primes[k]
        IN Residue(new[1] \o new[2], 16, p)
             = (ResiduePlus01(old[1], p) * ResiduePlus10(old[2], p)) % p

\* C4: a call of a5rand makes exactly one step: the caller's pair becomes
\* (low, high) of the exact product of (Seed1 + 0x5555555555555555) mod 2^64
\* and (Seed2 + 0xAAAAAAAAAAAAAAAA) mod 2^64, and the value returned is the
\* XOR of the two new words; so after any number of calls the value last
\* returned is the XOR of the current state words.
C4_OneStep ==
    /\ [][ncalls' # ncalls =>
            /\ ncalls'[1] = ncalls[1] + 1
            /\ ExactStep(seeds[1], seeds'[1])
            /\ ret'[1] = Xor64(seeds'[1][1], seeds'[1][2])]_vars
    /\ [](ncalls[1] > 0 => ret[1] = Xor64(seeds[1][1], seeds[1][2]))

\* Three calls from (0, 0), with the values the compiled header returns:
\* state (0x1952ae19ac941d30, 0x03b4edb34a2c8f1e), output 0x1ae643aae6b8922e.
C4_Witness ==
    /\ ncalls[1] = 3 /\ seeds0[1] = <<Zero64, Zero64>>
    /\ seeds[1] = <<<<48, 29, 148, 172, 25, 174, 82, 25>>,
                    <<30, 143, 44, 74, 179, 237, 180, 3>>>>
    /\ ret[1] = <<46, 146, 184, 230, 170, 67, 230, 26>>

---------------------------------------------------------------------------
(* Specification CycleSpec: the generator started from (0, 0), and beside it *)
(* a second caller that runs the same generator from (0, 0) at twice the    *)
(* speed on a pair of its own.  After k steps pair 1 holds the state after  *)
(* k calls and pair 2 the state after 2k calls.  If two of the states after *)
(* 0..N calls were equal, say after i < j calls, the states would repeat    *)
(* with period j - i from the i-th on, and for the multiple k of j - i with *)
(* max(i, 1) <= k <= j the states after k and after 2k calls would be       *)
(* equal.  So pair 1 # pair 2 at every step 1..N shows that the states      *)
(* after 0..N calls are pairwise different.  The build is the one with the  *)
(* 128-bit type; under C1 the portable branch returns the same values.      *)

Warmup == 4
Window == 65536

CycleInit ==
    /\ impl = "int128" /\ endian = "little"
    /\ pc = "rand"
    /\ seeds = <<<<Zero64, Zero64>>, <<Zero64, Zero64>>>>
    /\ seeds0 = seeds
    /\ ptr = <<1, 2>> /\ tpc = <<"read1", "read1">>
    /\ s1 = <<Zero64, Zero64>> /\ s2 = <<Zero64, Zero64>>
    /\ ret = <<Zero64, Zero64>> /\ ncalls = <<0, 0>>
    /\ MulIdle /\ HashIdle /\ ld = Zero64

\* One call by caller 1 and two calls by caller 2.
CycleStep ==
    /\ pc = "rand" /\ ncalls[1] < Warmup + Window
    /\ \E r \in {a5rand(seeds[ptr[1]])}, q1 \in {a5rand(seeds[ptr[2]])} :
        \E q \in {a5rand(<<q1.Seed1, q1.Seed2>>)} :
          /\ s1' = <<r.Seed1, q.Seed1>>
          /\ s2' = <<r.Seed2, q.Seed2>>
          /\ seeds' = <<<<r.Seed1, r.Seed2>>, <<q.Seed1, q.Seed2>>>>
          /\ ret' = <<r.ret, q.ret>>
    /\ ncalls' = <<ncalls[1] + 1, ncalls[2] + 2>>
    /\ UNCHANGED <<buildVars, pc, mulVars, hashVars, ld, seeds0, ptr, tpc>>

CycleNext == CycleStep
CycleSpec == CycleInit /\ [][CycleNext]_vars

\* C5: from (0, 0), through the 4 warm-up calls and the 2^16 calls after
\* them, the state pair never equals a state it held earlier in the run: the
\* state after k calls differs from the state after 2k calls for every k from
\* 1 to 4 + 2^16 (which excludes any repeat among the states after 0..4+2^16
\* calls), and in particular it is never the initial (0, 0) again.
C5_NoCycle ==
    ncalls[1] >= 1 =>
        /\ ncalls[2] = 2 * ncalls[1]
        /\ seeds[1] # seeds[2]
        /\ seeds[1] # seeds0[1]

\* The end of the window, with the state and the output the compiled header
\* gives after 65540 calls, and its state after 131080 calls.
C5_Witness ==
    /\ ncalls[1] = Warmup + Window
    /\ seeds[1] = <<<<203, 88, 178, 31, 215, 218, 156, 193>>,
                    <<12, 91, 81, 69, 101, 153, 58, 14>>>>
    /\ ret[1] = <<199, 3, 227, 90, 178, 67, 166, 207>>
    /\ seeds[2] = <<<<175, 101, 47, 19, 72, 119, 33, 144>>,
                    <<46, 27, 64, 129, 62, 83, 30, 138>>>>

---------------------------------------------------------------------------
(* Specification ConcSpec: two concurrent callers of a5rand.  Each read and  *)
(* each write of a state word is a step of its own.  The callers hold either *)
(* two different pairs or, against the contract, the same pair; the steps of *)
(* two calls on the same pair race, and the interleavings of the word reads  *)
(* and writes are among the outcomes of that race.                           *)

CallsPerThread == 2
Threads == {1, 2}

ConcInit ==
    /\ impl \in Impls /\ endian = "little"
    /\ pc = "rand"
    /\ seeds \in {<<<<x, Zero64>>, <<Zero64, x>>>> : x \in RandWords \ {Zero64}}
    /\ seeds0 = seeds
    /\ ptr \in {<<1, 2>>, <<1, 1>>}
    /\ tpc = <<"read1", "read1">>
    /\ s1 = <<Zero64, Zero64>> /\ s2 = <<Zero64, Zero64>>
    /\ ret = <<Zero64, Zero64>> /\ ncalls = <<0, 0>>
    /\ MulIdle /\ HashIdle /\ ld = Zero64

Others == <<buildVars, pc, mulVars, hashVars, ld, seeds0, ptr>>

\* Line 395: s1 = *Seed1.
Read1(t) ==
    /\ tpc[t] = "read1" /\ ncalls[t] < CallsPerThread
    /\ s1' = [s1 EXCEPT ![Frame(t)] = seeds[ptr[t]][1]]
    /\ tpc' = [tpc EXCEPT ![t] = "read2"]
    /\ UNCHANGED <<Others, seeds, s2, ret, ncalls>>

\* Line 396: s2 = *Seed2.
Read2(t) ==
    /\ tpc[t] = "read2"
    /\ s2' = [s2 EXCEPT ![Frame(t)] = seeds[ptr[t]][2]]
    /\ tpc' = [tpc EXCEPT ![t] = "mul"]
    /\ UNCHANGED <<Others, seeds, s1, ret, ncalls>>

\* Line 398: the multiplication, into s1 and s2.
Multiply(t) ==
    /\ tpc[t] = "mul"
    /\ \E r \in {RandMul(s1[Frame(t)], s2[Frame(t)])} :
          /\ s1' = [s1 EXCEPT ![Frame(t)] = r.rl]
          /\ s2' = [s2 EXCEPT ![Frame(t)] = r.rh]
    /\ tpc' = [tpc EXCEPT ![t] = "write1"]
    /\ UNCHANGED <<Others, seeds, ret, ncalls>>

\* Line 400: *Seed1 = s1.
Write1(t) ==
    /\ tpc[t] = "write1"
    /\ seeds' = [seeds EXCEPT ![ptr[t]][1] = s1[Frame(t)]]
    /\ tpc' = [tpc EXCEPT ![t] = "write2"]
    /\ UNCHANGED <<Others, s1, s2, ret, ncalls>>

\* Line 401: *Seed2 = s2.
Write2(t) ==
    /\ tpc[t] = "write2"
    /\ seeds' = [seeds EXCEPT ![ptr[t]][2] = s2[Frame(t)]]
    /\ tpc' = [tpc EXCEPT ![t] = "ret"]
    /\ UNCHANGED <<Others, s1, s2, ret, ncalls>>

\* Line 403: return( s1 ^ s2 ).
Return(t) ==
    /\ tpc[t] = "ret"
    /\ ret' = [ret EXCEPT ![t] = Xor64(s1[Frame(t)], s2[Frame(t)])]
    /\ ncalls' = [ncalls EXCEPT ![t] = @ + 1]
    /\ tpc' = [tpc EXCEPT ![t] = "read1"]
    /\ UNCHANGED <<Others, seeds, s1, s2>>

ConcNext ==
    \E t \in Threads :
        \/ Read1(t) \/ Read2(t) \/ Multiply(t)
        \/ Write1(t) \/ Write2(t) \/ Return(t)
ConcSpec == ConcInit /\ [][ConcNext]_vars

\* The call that follows the call with result res.
CallAfter(res) == a5rand(<<res.Seed1, res.Seed2>>)

RECURSIVE Sequential(_, _)
\* The result of k calls made one after the other from state pair.
Sequential(pair, k) ==
    IF k = 0 THEN [Seed1 |-> pair[1], Seed2 |-> pair[2], ret |-> Zero64]
    ELSE CallAfter(Sequential(pair, k - 1))

\* C6: when the two callers hold different pairs, then under every
\* interleaving each pair is, at every point of its owner's calls, what the
\* owner's calls alone make of it (the other caller never changes it), and
\* every call returns what it returns when the calls run one after the other.
C6_DistinctPairs ==
    ptr[1] # ptr[2] =>
        \A t \in Threads :
            \E now \in {Sequential(seeds0[ptr[t]], ncalls[t])} :
            \E next \in {CallAfter(now)} :
               /\ tpc[t] \in {"read1", "read2", "mul", "write1"} =>
                      seeds[ptr[t]] = <<now.Seed1, now.Seed2>>
               /\ tpc[t] = "write2" =>
                      seeds[ptr[t]] = <<next.Seed1, now.Seed2>>
               /\ tpc[t] = "ret" => seeds[ptr[t]] = <<next.Seed1, next.Seed2>>
               /\ ncalls[t] > 0 => ret[t] = now.ret

\* Both callers are between the two stores of their second call, each on its
\* own pair.
C6_Witness ==
    /\ ptr[1] # ptr[2]
    /\ tpc = <<"write2", "write2">> /\ ncalls = <<1, 1>>
    /\ seeds[1][1] = s1[1] /\ seeds[2][1] = s1[2]

\* Two callers on one pair: when both have returned from all their calls the
\* pair is what the same number of calls in sequence make of it.  The race
\* refutes this.
RaceIsSequential ==
    ptr[1] = ptr[2] /\ tpc = <<"read1", "read1">> =>
        \E now \in {Sequential(seeds0[1], ncalls[1] + ncalls[2])} :
            seeds[1] = <<now.Seed1, now.Seed2>>

=============================================================================
